---- MODULE Spec2Model ----
(***************************************************************************)
(* Model of the Keycloak authorization middleware of authorization.go:     *)
(* one AuthMiddleware instance built by New, and ServeHTTP handling        *)
(* several inbound requests concurrently.  Strings are sequences of        *)
(* one-character strings, so that strings.Split, strings.TrimSpace and     *)
(* url.Values.Encode are computed on the text as the code computes them.   *)
(***************************************************************************)
EXTENDS Integers, Sequences, FiniteSets

(* ------------------------------ bounds -------------------------------- *)

\* number of inbound requests in flight on the one instance
NumReqs == 2

\* longest request path explored by the path-derivation specification
MaxPathLen == 9

(* ------------------------ constants of the code ----------------------- *)

StatusOK == 200
StatusBadRequest == 400
StatusUnauthorized == 401
StatusInternalServerError == 500

\* len(pathParts) < 6
MinParts == 6

\* "urn:ietf:params:oauth:grant-type:uma-ticket"
GrantType ==
  << "u","r","n",":","i","e","t","f",":","p","a","r","a","m","s",":",
     "o","a","u","t","h",":","g","r","a","n","t","-","t","y","p","e",":",
     "u","m","a","-","t","i","c","k","e","t" >>

ContentTypeForm == "application/x-www-form-urlencoded"

\* the three keys formData.Set is called with
KeyPermission == << "p","e","r","m","i","s","s","i","o","n" >>
KeyGrantType  == << "g","r","a","n","t","_","t","y","p","e" >>
KeyAudience   == << "a","u","d","i","e","n","c","e" >>

(* ------------------------------ strings ------------------------------- *)

\* strings.Index for a one-character separator, 1-based, 0 when absent
Index(s, c) ==
  IF \E i \in 1..Len(s) : s[i] = c
  THEN CHOOSE i \in 1..Len(s) : s[i] = c /\ \A j \in 1..(i-1) : s[j] # c
  ELSE 0

RECURSIVE Split(_, _)
\* strings.Split(s, sep): every piece between separators, empty pieces kept
Split(s, sep) ==
  LET i == Index(s, sep)
  IN  IF i = 0 THEN << s >>
      ELSE << SubSeq(s, 1, i - 1) >> \o Split(SubSeq(s, i + 1, Len(s)), sep)

IsSpace(c) == c \in {" ", "\t", "\n", "\r"}

RECURSIVE TrimLeft(_)
TrimLeft(s) ==
  IF s # << >> /\ IsSpace(s[1]) THEN TrimLeft(Tail(s)) ELSE s

RECURSIVE TrimRight(_)
TrimRight(s) ==
  IF s # << >> /\ IsSpace(s[Len(s)]) THEN TrimRight(SubSeq(s, 1, Len(s) - 1)) ELSE s

\* strings.TrimSpace
TrimSpace(s) == TrimRight(TrimLeft(s))

HasPrefix(s, p) == Len(s) >= Len(p) /\ SubSeq(s, 1, Len(p)) = p

(* --------------------- url.Values and its encoding -------------------- *)

\* the bytes url.QueryEscape writes as %XX, with their two hex digits
HexOf ==
  [ c \in {"/", "#", ":", "&", "=", "%", "+"} |->
      CASE c = "/" -> << "2", "F" >>
        [] c = "#" -> << "2", "3" >>
        [] c = ":" -> << "3", "A" >>
        [] c = "&" -> << "2", "6" >>
        [] c = "=" -> << "3", "D" >>
        [] c = "%" -> << "2", "5" >>
        [] c = "+" -> << "2", "B" >> ]

RECURSIVE QueryEscape(_)
\* url.QueryEscape: space becomes "+", reserved bytes become %XX
QueryEscape(s) ==
  IF s = << >> THEN << >>
  ELSE LET c == s[1]
           e == IF c = " " THEN << "+" >>
                ELSE IF c \in DOMAIN HexOf THEN << "%" >> \o HexOf[c]
                ELSE << c >>
       IN  e \o QueryEscape(Tail(s))

\* the keys of url.Values in the order Encode sorts them
SortedKeys == << KeyAudience, KeyGrantType, KeyPermission >>

RECURSIVE EncodeFrom(_, _)
EncodeFrom(v, k) ==
  IF k > Len(SortedKeys) THEN << >>
  ELSE LET key  == SortedKeys[k]
           rest == EncodeFrom(v, k + 1)
       IN  IF key \notin DOMAIN v THEN rest
           ELSE QueryEscape(key) \o << "=" >> \o QueryEscape(v[key])
                  \o (IF rest = << >> THEN << >> ELSE << "&" >> \o rest)

\* url.Values.Encode: key=value pairs, sorted by key, joined by "&"
Encode(v) == EncodeFrom(v, 1)

\* formData after the three Set calls of lines 61-64
FormData(perm, audience) ==
  [ k \in {KeyPermission, KeyGrantType, KeyAudience} |->
      IF k = KeyPermission THEN perm
      ELSE IF k = KeyGrantType THEN GrantType
      ELSE audience ]

(* ------------------------- net/http as called ------------------------- *)

\* req.Header.Get("Authorization"): "" when the header is absent
HeaderGet(h) == IF h.present THEN h.value ELSE << >>

\* http.NewRequest fails when url.Parse rejects the target: the empty url, a
\* url holding a control character, and a url that starts with a colon
\* (missing protocol scheme)
UrlParseFails(u) ==
  \/ u = << >>
  \/ \E i \in 1..Len(u) : u[i] \in {"\t", "\n", "\r"}
  \/ u[1] = ":"

\* the schemes http.Transport can send on
SupportedScheme(u) ==
  \/ HasPrefix(u, << "h","t","t","p",":","/","/" >>)
  \/ HasPrefix(u, << "h","t","t","p","s",":","/","/" >>)

NoResp == [kind |-> "none", StatusCode |-> 0, Body |-> "", readOk |-> TRUE]

\* client.Do returned a non-nil error (connection refused, bad scheme, ...)
TransportError == [kind |-> "error", StatusCode |-> 0, Body |-> "", readOk |-> TRUE]

\* answers of the authorization server: status, body, and whether
\* io.ReadAll of the body succeeds
Responses ==
  { [kind |-> "response", StatusCode |-> StatusOK, Body |-> "rpt", readOk |-> TRUE],
    [kind |-> "response", StatusCode |-> StatusOK, Body |-> "access_denied", readOk |-> TRUE],
    [kind |-> "response", StatusCode |-> StatusOK, Body |-> "", readOk |-> FALSE],
    [kind |-> "response", StatusCode |-> 403, Body |-> "access_denied", readOk |-> TRUE] }

\* what client.Do can return for a request to url u
DoOutcomes(u) ==
  IF SupportedScheme(u) THEN Responses \cup {TransportError} ELSE {TransportError}

(* ------------------------------- inputs ------------------------------- *)

Reqs == 1..NumReqs

UrlGood  == << "h","t","t","p","s",":","/","/","k","c" >>
UrlNoScheme == << ":","/","/","k","c" >>
UrlBlank == << " " >>
UrlTab == << "\t" >>

ConfigURLs == { << >>, UrlBlank, UrlTab, UrlNoScheme, UrlGood }

ClientApp == << "a","&","b" >>
ConfigClientIds == { << >>, ClientApp }

NilConfig == [nil |-> TRUE, KeycloakURL |-> << >>, KeycloakClientId |-> << >>]

Configs ==
  {NilConfig} \cup
  [nil : {FALSE}, KeycloakURL : ConfigURLs, KeycloakClientId : ConfigClientIds]

Token1 == << "B"," ","1" >>
Token2 == << "B"," ","2" >>

AuthHeaders ==
  { [present |-> FALSE, value |-> << >>],
    [present |-> TRUE,  value |-> << >>],
    [present |-> TRUE,  value |-> Token1],
    [present |-> TRUE,  value |-> Token2] }

\* /a/b/c/orders
PathShort == << "/","a","/","b","/","c","/","o","r","d","e","r","s" >>
\* /a/b/c/orders/read/42
PathOrders == PathShort \o << "/","r","e","a","d","/","4","2" >>
\* /a/b/c/users/write
PathUsers == << "/","a","/","b","/","c","/","u","s","e","r","s","/","w","r","i","t","e" >>

PathRoot == << "/" >>

SamplePaths == { PathRoot, PathShort, PathOrders, PathUsers }

PathChars == { "/", "o", "r" }

\* every path over PathChars of length at most MaxPathLen
AllPaths == UNION { [1..n -> PathChars] : n \in 0..MaxPathLen }

NoRequest == [auth |-> [present |-> FALSE, value |-> << >>], path |-> << >>]

(* ------------------------------- state -------------------------------- *)

VARIABLES
  newResult,   \* "none" before New is called, then "ok" or "error"
  am,          \* the AuthMiddleware fields keycloakUrl and keycloakClientId
  warnings,    \* the configuration warnings New printed
  pc,          \* per request: position of ServeHTTP
  req,         \* per request: the inbound request (Authorization header, URL path)
  authorizationHeader, \* per request: the local of line 36
  permission,  \* per request: the local of line 57
  wire,        \* the requests handed to client.Do, tagged with their inbound request
  kcResp,      \* per request: what client.Do returned
  written,     \* per request: the status codes http.Error wrote to w
  forwarded,   \* per request: the requests passed to am.next.ServeHTTP
  steps        \* per request: the steps of ServeHTTP run so far

vars == << newResult, am, warnings, pc, req, authorizationHeader, permission,
           wire, kcResp, written, forwarded, steps >>

handlerVars == << pc, req, authorizationHeader, permission, wire, kcResp,
                  written, forwarded, steps >>

NoFields == [keycloakUrl |-> << >>, keycloakClientId |-> << >>]

Init ==
  /\ newResult = "none"
  /\ am = NoFields
  /\ warnings = {}
  /\ pc = [r \in Reqs |-> "idle"]
  /\ req = [r \in Reqs |-> NoRequest]
  /\ authorizationHeader = [r \in Reqs |-> << >>]
  /\ permission = [r \in Reqs |-> << >>]
  /\ wire = {}
  /\ kcResp = [r \in Reqs |-> NoResp]
  /\ written = [r \in Reqs |-> << >>]
  /\ forwarded = [r \in Reqs |-> << >>]
  /\ steps = [r \in Reqs |-> << >>]

(* ---------------------------- construction ---------------------------- *)

\* New(ctx, next, config, name)
New(config) ==
  /\ newResult = "none"
  /\ IF config.nil
     THEN /\ newResult' = "error"
          /\ UNCHANGED << am, warnings >>
     ELSE /\ newResult' = "ok"
          /\ warnings' =
               (IF TrimSpace(config.KeycloakURL) = << >> THEN {"KeycloakURL"} ELSE {})
               \cup
               (IF TrimSpace(config.KeycloakClientId) = << >>
                THEN {"KeycloakClientId"} ELSE {})
          /\ am' = [keycloakUrl |-> config.KeycloakURL,
                    keycloakClientId |-> config.KeycloakClientId]
  /\ UNCHANGED handlerVars

(* ------------------------------ ServeHTTP ----------------------------- *)

\* http.Error(w, msg, code) followed by return
Fail(r, code) ==
  /\ written' = [written EXCEPT ![r] = Append(@, code)]
  /\ pc' = [pc EXCEPT ![r] = "done"]

\* Credential with the path length examined before the header
CredentialAfterPath(r, h, p) ==
  /\ newResult = "ok"
  /\ pc[r] = "idle"
  /\ req' = [req EXCEPT ![r] = [auth |-> h, path |-> p]]
  /\ authorizationHeader' = [authorizationHeader EXCEPT ![r] = HeaderGet(h)]
  /\ steps' = [steps EXCEPT ![r] = Append(@, "credential")]
  /\ IF Len(Split(p, "/")) < MinParts
     THEN Fail(r, StatusBadRequest)
     ELSE IF HeaderGet(h) = << >>
     THEN Fail(r, StatusUnauthorized)
     ELSE /\ pc' = [pc EXCEPT ![r] = "path"]
          /\ UNCHANGED written
  /\ UNCHANGED << newResult, am, warnings, permission, wire, kcResp, forwarded >>

\* lines 36-41: the call arrives with its request; the Authorization header is read
Credential(r, h, p) ==
  /\ newResult = "ok"
  /\ pc[r] = "idle"
  /\ req' = [req EXCEPT ![r] = [auth |-> h, path |-> p]]
  /\ authorizationHeader' = [authorizationHeader EXCEPT ![r] = HeaderGet(h)]
  /\ steps' = [steps EXCEPT ![r] = Append(@, "credential")]
  /\ IF HeaderGet(h) = << >>
     THEN Fail(r, StatusUnauthorized)
     ELSE /\ pc' = [pc EXCEPT ![r] = "path"]
          /\ UNCHANGED written
  /\ UNCHANGED << newResult, am, warnings, permission, wire, kcResp, forwarded >>

\* PermissionOf with the two indices one too low
PermissionOfShifted(pathParts) ==
  << "/" >> \o pathParts[4] \o << "#" >> \o pathParts[5]

\* "/" + resource + "#" + scope with resource, scope := pathParts[4], pathParts[5]
PermissionOf(pathParts) ==
  << "/" >> \o pathParts[5] \o << "#" >> \o pathParts[6]

\* Permission with the configuration guard run before the length check
PermissionAfterGuard(r) ==
  /\ pc[r] = "path"
  /\ steps' = [steps EXCEPT ![r] = Append(@, "permission")]
  /\ LET pathParts == Split(req[r].path, "/")
     IN  IF am.keycloakUrl = << >>
         THEN /\ Fail(r, StatusInternalServerError)
              /\ UNCHANGED permission
         ELSE IF Len(pathParts) < MinParts
         THEN /\ Fail(r, StatusBadRequest)
              /\ UNCHANGED permission
         ELSE /\ permission' = [permission EXCEPT ![r] = PermissionOf(pathParts)]
              /\ pc' = [pc EXCEPT ![r] = "guard"]
              /\ UNCHANGED written
  /\ UNCHANGED << newResult, am, warnings, req, authorizationHeader, wire, kcResp,
                  forwarded >>

\* lines 46-58: split the path, check its length, derive the permission
Permission(r) ==
  /\ pc[r] = "path"
  /\ steps' = [steps EXCEPT ![r] = Append(@, "permission")]
  /\ LET pathParts == Split(req[r].path, "/")
     IN  IF Len(pathParts) < MinParts
         THEN /\ Fail(r, StatusBadRequest)
              /\ UNCHANGED permission
         ELSE /\ permission' = [permission EXCEPT ![r] = PermissionOf(pathParts)]
              /\ pc' = [pc EXCEPT ![r] = "guard"]
              /\ UNCHANGED written
  /\ UNCHANGED << newResult, am, warnings, req, authorizationHeader, wire, kcResp,
                  forwarded >>

\* Guard without its test: every request goes on to the dispatch
GuardSkipped(r) ==
  /\ pc[r] = "guard"
  /\ steps' = [steps EXCEPT ![r] = Append(@, "guard")]
  /\ pc' = [pc EXCEPT ![r] = "dispatch"]
  /\ UNCHANGED << newResult, am, warnings, req, authorizationHeader, permission,
                  wire, kcResp, written, forwarded >>

\* Guard that stores a fallback url in the instance when it finds none
GuardRepairs(r) ==
  /\ pc[r] = "guard"
  /\ steps' = [steps EXCEPT ![r] = Append(@, "guard")]
  /\ IF am.keycloakUrl = << >>
     THEN /\ Fail(r, StatusInternalServerError)
          /\ am' = [am EXCEPT !.keycloakUrl = UrlGood]
     ELSE /\ pc' = [pc EXCEPT ![r] = "dispatch"]
          /\ UNCHANGED << written, am >>
  /\ UNCHANGED << newResult, warnings, req, authorizationHeader, permission,
                  wire, kcResp, forwarded >>

\* lines 66-70: the configuration guard
Guard(r) ==
  /\ pc[r] = "guard"
  /\ steps' = [steps EXCEPT ![r] = Append(@, "guard")]
  /\ IF am.keycloakUrl = << >>
     THEN Fail(r, StatusInternalServerError)
     ELSE /\ pc' = [pc EXCEPT ![r] = "dispatch"]
          /\ UNCHANGED written
  /\ UNCHANGED << newResult, am, warnings, req, authorizationHeader, permission,
                  wire, kcResp, forwarded >>

\* KcReq reading the header and the permission of the request that arrived
\* first, as if they were kept in fields of the instance
KcReqShared(r) ==
  LET o == CHOOSE q \in Reqs : pc[q] # "idle" /\ \A t \in Reqs : pc[t] # "idle" => q <= t
  IN  [ for           |-> r,
        method        |-> "POST",
        url           |-> am.keycloakUrl,
        Authorization |-> authorizationHeader[o],
        ContentType   |-> ContentTypeForm,
        body          |-> Encode(FormData(permission[o], am.keycloakClientId)) ]

\* the request built by lines 73-80 (formData of lines 61-64 as its body)
KcReq(r) ==
  [ for           |-> r,
    method        |-> "POST",
    url           |-> am.keycloakUrl,
    Authorization |-> authorizationHeader[r],
    ContentType   |-> ContentTypeForm,
    body          |-> Encode(FormData(permission[r], am.keycloakClientId)) ]

\* lines 73-94: build the Keycloak request and hand it to client.Do
Dispatch(r) ==
  /\ pc[r] = "dispatch"
  /\ steps' = [steps EXCEPT ![r] = Append(@, "dispatch")]
  /\ IF UrlParseFails(am.keycloakUrl)
     THEN /\ Fail(r, StatusUnauthorized)
          /\ UNCHANGED wire
     ELSE /\ wire' = wire \cup {KcReq(r)}
          /\ pc' = [pc EXCEPT ![r] = "wait"]
          /\ UNCHANGED written
  /\ UNCHANGED << newResult, am, warnings, req, authorizationHeader, permission,
                  kcResp, forwarded >>

\* Granted for every answer that arrived (only err == nil is examined)
GrantedAnyAnswer(resp) == resp.kind = "response"

\* Granted only when the body was read in full as well
GrantedIfBodyRead(resp) == resp.StatusCode = StatusOK /\ resp.readOk

\* kcResp.StatusCode == http.StatusOK
Granted(resp) == resp.StatusCode = StatusOK

\* Denied answers sent back to the dispatch step instead of ending the request
ClientDoReturnsRetry(r, out) ==
  /\ pc[r] = "wait"
  /\ out \in DoOutcomes(am.keycloakUrl)
  /\ kcResp' = [kcResp EXCEPT ![r] = out]
  /\ IF out.kind = "error"
     THEN /\ Fail(r, StatusUnauthorized)
          /\ UNCHANGED << forwarded, steps >>
     ELSE /\ steps' = [steps EXCEPT ![r] = Append(@, "decision")]
          /\ IF Granted(out)
             THEN /\ forwarded' = [forwarded EXCEPT ![r] = Append(@, req[r])]
                  /\ pc' = [pc EXCEPT ![r] = "done"]
                  /\ UNCHANGED written
             ELSE /\ pc' = [pc EXCEPT ![r] = "dispatch"]
                  /\ UNCHANGED << written, forwarded >>
  /\ UNCHANGED << newResult, am, warnings, req, authorizationHeader, permission, wire >>

\* lines 94-115: client.Do returns; on an error 401, otherwise the decision
ClientDoReturns(r, out) ==
  /\ pc[r] = "wait"
  /\ out \in DoOutcomes(am.keycloakUrl)
  /\ kcResp' = [kcResp EXCEPT ![r] = out]
  /\ IF out.kind = "error"
     THEN /\ Fail(r, StatusUnauthorized)
          /\ UNCHANGED << forwarded, steps >>
     ELSE /\ steps' = [steps EXCEPT ![r] = Append(@, "decision")]
          /\ IF Granted(out)
             THEN /\ forwarded' = [forwarded EXCEPT ![r] = Append(@, req[r])]
                  /\ pc' = [pc EXCEPT ![r] = "done"]
                  /\ UNCHANGED written
             ELSE /\ Fail(r, StatusUnauthorized)
                  /\ UNCHANGED forwarded
  /\ UNCHANGED << newResult, am, warnings, req, authorizationHeader, permission, wire >>

Next ==
  \/ \E config \in Configs : New(config)
  \/ \E r \in Reqs, h \in AuthHeaders, p \in SamplePaths : Credential(r, h, p)
  \/ \E r \in Reqs : Permission(r)
  \/ \E r \in Reqs : Guard(r)
  \/ \E r \in Reqs : Dispatch(r)
  \/ \E r \in Reqs, out \in Responses \cup {TransportError} : ClientDoReturns(r, out)

Spec == Init /\ [][Next]_vars

(* ------------- the path derivation over every bounded path ------------ *)

\* a constructed instance and request 1 past the credential step, holding
\* any path over PathChars
InitPerm ==
  /\ newResult = "ok"
  /\ \E u \in {<< >>, UrlGood} :
        am = [keycloakUrl |-> u, keycloakClientId |-> ClientApp]
  /\ warnings \in {{}, {"KeycloakURL"}}
  /\ warnings = (IF am.keycloakUrl = << >> THEN {"KeycloakURL"} ELSE {})
  /\ pc = [r \in Reqs |-> IF r = 1 THEN "path" ELSE "idle"]
  /\ \E p \in AllPaths :
        req = [r \in Reqs |->
                 IF r = 1 THEN [auth |-> [present |-> TRUE, value |-> Token1], path |-> p]
                 ELSE NoRequest]
  /\ authorizationHeader = [r \in Reqs |-> IF r = 1 THEN Token1 ELSE << >>]
  /\ permission = [r \in Reqs |-> << >>]
  /\ wire = {}
  /\ kcResp = [r \in Reqs |-> NoResp]
  /\ written = [r \in Reqs |-> << >>]
  /\ forwarded = [r \in Reqs |-> << >>]
  /\ steps = [r \in Reqs |-> IF r = 1 THEN << "credential" >> ELSE << >>]

NextPerm ==
  \/ \E r \in Reqs : Permission(r)
  \/ \E r \in Reqs : Guard(r)

SpecPerm == InitPerm /\ [][NextPerm]_vars


(* ===================== vocabulary of the properties =================== *)

\* positions of the slashes of a path, and its number of "/"-segments
SlashPos(p) == { i \in 1..Len(p) : p[i] = "/" }
NumSegments(p) == Cardinality(SlashPos(p)) + 1

\* position of the k-th slash (k >= 1)
KthSlash(p, k) ==
  CHOOSE i \in SlashPos(p) : Cardinality({ j \in SlashPos(p) : j <= i }) = k

\* segment k of the path, 0-indexed: the text between slash k and slash k+1
Segment(p, k) ==
  LET first == IF k = 0 THEN 1 ELSE KthSlash(p, k) + 1
      last  == IF k + 1 <= Cardinality(SlashPos(p)) THEN KthSlash(p, k + 1) - 1
               ELSE Len(p)
  IN  SubSeq(p, first, last)

\* "/" + segment[4] + "#" + segment[5]
DerivedPermission(p) == << "/" >> \o Segment(p, 4) \o << "#" >> \o Segment(p, 5)

RECURSIVE Unescape(_)
\* what the receiver of a form-urlencoded text reads back: "+" is a space,
\* %XX the byte with that code
Unescape(s) ==
  IF s = << >> THEN << >>
  ELSE IF s[1] = "+" THEN << " " >> \o Unescape(Tail(s))
  ELSE IF /\ s[1] = "%"
          /\ Len(s) >= 3
          /\ \E c \in DOMAIN HexOf : HexOf[c] = << s[2], s[3] >>
       THEN << CHOOSE c \in DOMAIN HexOf : HexOf[c] = << s[2], s[3] >> >>
              \o Unescape(SubSeq(s, 4, Len(s)))
  ELSE << s[1] >> \o Unescape(Tail(s))

\* the key/value pairs a form-urlencoded body carries
ParseQuery(body) ==
  LET pieces == Split(body, "&")
      Pair(t) == LET i == Index(t, "=")
                 IN  IF i = 0 THEN << Unescape(t), << >> >>
                     ELSE << Unescape(SubSeq(t, 1, i - 1)),
                             Unescape(SubSeq(t, i + 1, Len(t))) >>
  IN  { Pair(pieces[i]) : i \in { j \in 1..Len(pieces) : pieces[j] # << >> } }

HeaderAbsentOrEmpty(h) == ~h.present \/ h.value = << >>

\* non-empty Authorization header and a path of at least 6 segments
WellFormed(r) == ~HeaderAbsentOrEmpty(req[r].auth) /\ NumSegments(req[r].path) >= 6

Answered200(r) == kcResp[r].kind = "response" /\ kcResp[r].StatusCode = 200

QueriesOf(r) == { q \in wire : q.for = r }

StepOrder == << "credential", "permission", "guard", "dispatch", "decision" >>

IsPrefix(a, b) == Len(a) <= Len(b) /\ SubSeq(b, 1, Len(a)) = a

(* ============================== properties ============================ *)

\* C1: the downstream handler is invoked only for a request whose policy
\* query was answered with status 200, then exactly once and with the
\* original request, and with no error response written by the gate; every
\* answer with status 200 is forwarded, whatever its body and whether or not
\* the body could be read.
C1_ForwardIffStatus200 ==
  \A r \in Reqs :
    /\ forwarded[r] # << >> =>
         Answered200(r) /\ forwarded[r] = << req[r] >> /\ written[r] = << >>
    /\ (pc[r] = "done" /\ Answered200(r)) => forwarded[r] = << req[r] >>

C1_Witness ==
  \E r \in Reqs :
    /\ pc[r] = "done"
    /\ kcResp[r].StatusCode = 200
    /\ ~kcResp[r].readOk
    /\ forwarded[r] = << req[r] >>
    /\ written[r] = << >>

\* C2: once the request has reached the dispatch step, any result other than
\* a 200 answer (another status, a request that cannot be built, a transport
\* failure) ends it with 401 and without invoking the downstream handler.
C2_UpstreamFailureIs401 ==
  \A r \in Reqs :
    (pc[r] = "done" /\ Len(steps[r]) >= 4 /\ steps[r][4] = "dispatch" /\ ~Answered200(r))
      => written[r] = << 401 >> /\ forwarded[r] = << >>

C2_Witness ==
  \E r1, r2 \in Reqs :
    /\ pc[r1] = "done" /\ kcResp[r1].kind = "response" /\ kcResp[r1].StatusCode = 403
    /\ written[r1] = << 401 >>
    /\ pc[r2] = "done" /\ kcResp[r2].kind = "error"
    /\ written[r2] = << 401 >>

\* C3: a request whose Authorization header is absent or empty ends with 401
\* and is never forwarded, whatever its path and the configuration.
C3_MissingCredentialIs401 ==
  \A r \in Reqs :
    (pc[r] # "idle" /\ HeaderAbsentOrEmpty(req[r].auth))
      => pc[r] = "done" /\ written[r] = << 401 >> /\ forwarded[r] = << >>

C3_Witness ==
  \E r1, r2 \in Reqs :
    /\ am.keycloakUrl = << >>
    /\ pc[r1] = "done" /\ ~req[r1].auth.present /\ NumSegments(req[r1].path) < 6
    /\ written[r1] = << 401 >>
    /\ pc[r2] = "done" /\ req[r2].auth.present /\ NumSegments(req[r2].path) >= 6
    /\ written[r2] = << 401 >>

\* C4: a request with a non-empty Authorization header whose path has fewer
\* than 6 segments ends with 400 and is never forwarded, also when the
\* authorization server url is empty.
C4_ShortPathIs400 ==
  \A r \in Reqs :
    (~HeaderAbsentOrEmpty(req[r].auth) /\ NumSegments(req[r].path) < 6)
      => /\ forwarded[r] = << >>
         /\ pc[r] \in {"idle", "path", "done"}
         /\ pc[r] = "done" => written[r] = << 400 >>

C4_Witness ==
  \E r \in Reqs :
    /\ am.keycloakUrl = << >>
    /\ pc[r] = "done"
    /\ NumSegments(req[r].path) = 5
    /\ written[r] = << 400 >>

\* C5: for a path of at least 6 segments the derived permission is
\* "/" + segment[4] + "#" + segment[5]; later segments do not matter.
C5_PermissionFromSegments ==
  \A r \in Reqs :
    (pc[r] \notin {"idle", "path"} /\ NumSegments(req[r].path) >= 6)
      => permission[r] = DerivedPermission(req[r].path)

C5_Witness ==
  \E r \in Reqs :
    /\ req[r].path = << "/", "/", "/", "/", "o", "/", "r", "/", "o" >>
    /\ permission[r] = << "/", "o", "#", "r" >>

\* C6: with an empty authorization server url every well-formed request ends
\* with 500, is never forwarded, and no policy query is sent for it.
C6_EmptyUrlIs500 ==
  am.keycloakUrl = << >> =>
    \A r \in Reqs :
      WellFormed(r) =>
        /\ forwarded[r] = << >>
        /\ QueriesOf(r) = {}
        /\ pc[r] = "done" => written[r] = << 500 >>

C6_Witness ==
  \E r \in Reqs :
    /\ newResult = "ok" /\ am.keycloakUrl = << >>
    /\ WellFormed(r)
    /\ pc[r] = "done"
    /\ written[r] = << 500 >>

C8_QueryCarriesOwnRequest ==
  \A q \in wire :
    /\ q.for \in Reqs
    /\ q.method = "POST"
    /\ q.url = am.keycloakUrl
    /\ q.ContentType = ContentTypeForm
    /\ req[q.for].auth.present
    /\ q.Authorization = req[q.for].auth.value
    /\ ParseQuery(q.body) =
         { << KeyPermission, DerivedPermission(req[q.for].path) >>,
           << KeyGrantType, GrantType >>,
           << KeyAudience, am.keycloakClientId >> }
    /\ \A o \in wire : o.for = q.for => o = q

C8_Witness ==
  \E q1, q2 \in wire :
    /\ q1.for # q2.for
    /\ q1.Authorization = Token1 /\ q2.Authorization = Token2
    /\ req[q1.for].path = PathOrders /\ req[q2.for].path = PathUsers
    /\ am.keycloakClientId = ClientApp
    /\ pc[q1.for] = "wait" /\ pc[q2.for] = "wait"

\* C9: the steps of a request run in the order credential, permission,
\* guard, dispatch, decision, none twice; a request has at most one policy
\* query; once client.Do has returned the request is finished, with exactly
\* one outcome (forwarded once, or one error response); a finished request
\* stays finished with that outcome.
C9_StepsInv ==
  \A r \in Reqs :
    /\ IsPrefix(steps[r], StepOrder)
    /\ Cardinality(QueriesOf(r)) <= 1
    /\ kcResp[r].kind # "none" => pc[r] = "done"
    /\ pc[r] = "done" => Len(written[r]) + Len(forwarded[r]) = 1
    /\ pc[r] # "done" => Len(written[r]) + Len(forwarded[r]) = 0

C9_Final ==
  \A r \in Reqs :
    pc[r] = "done" =>
      /\ pc'[r] = "done"
      /\ written'[r] = written[r]
      /\ forwarded'[r] = forwarded[r]
      /\ steps'[r] = steps[r]
      /\ QueriesOf(r)' = QueriesOf(r)

C9_LinearPipeline == [] C9_StepsInv /\ [][C9_Final]_vars

C9_Witness ==
  \E r1, r2 \in Reqs :
    /\ steps[r1] = StepOrder /\ pc[r1] = "done" /\ written[r1] = << 401 >>
    /\ Cardinality(QueriesOf(r1)) = 1
    /\ steps[r2] = StepOrder /\ pc[r2] = "done" /\ Len(forwarded[r2]) = 1

\* the outcome the interface table gives for a request, its configuration
\* and the answer to its own query
ExpectedOutcome(rq, cfg, answer) ==
  IF HeaderAbsentOrEmpty(rq.auth) THEN [status |-> << 401 >>, forwards |-> 0]
  ELSE IF NumSegments(rq.path) < 6 THEN [status |-> << 400 >>, forwards |-> 0]
  ELSE IF cfg.keycloakUrl = << >> THEN [status |-> << 500 >>, forwards |-> 0]
  ELSE IF answer.kind = "response" /\ answer.StatusCode = 200
       THEN [status |-> << >>, forwards |-> 1]
  ELSE [status |-> << 401 >>, forwards |-> 0]

C10_OutcomeInv ==
  \A r \in Reqs :
    pc[r] = "done" =>
      /\ written[r] = ExpectedOutcome(req[r], am, kcResp[r]).status
      /\ Len(forwarded[r]) = ExpectedOutcome(req[r], am, kcResp[r]).forwards

C10_ConfigFixed ==
  newResult # "none" => (am' = am /\ newResult' = newResult /\ warnings' = warnings)

\* C10: under every interleaving the outcome of a finished request is the
\* value of one function of its own header, its own path, the configuration
\* and the answer to its own query, and handling requests never changes the
\* configuration.
C10_Independent == [] C10_OutcomeInv /\ [][C10_ConfigFixed]_vars

C10_Witness ==
  \E r1, r2 \in Reqs :
    /\ r1 # r2
    /\ pc[r1] = "done" /\ pc[r2] = "done"
    /\ req[r1] = req[r2] /\ WellFormed(r1)
    /\ kcResp[r1] = kcResp[r2] /\ Answered200(r1)
    /\ Len(forwarded[r1]) = 1 /\ Len(forwarded[r2]) = 1

====
